---- MODULE Spec2Model ----
(***************************************************************************)
(* A model of boost::scope::unique_resource                                *)
(* (include/boost/scope/unique_resource.hpp).                              *)
(*                                                                         *)
(* A guard owns one resource value and one deleter.  Whether the resource  *)
(* is live is tracked either by the flag m_allocated (primary template of  *)
(* unique_resource_data) or by the resource value itself (specialisation   *)
(* for conforming resource traits).  The model runs a small program that   *)
(* constructs guards, operates on them and destroys them, and records      *)
(* every invocation of a deleter.                                          *)
(*                                                                         *)
(* Resource is modelled as a handle type (an integer): moving or copying a *)
(* handle leaves the source value unchanged.  Deleters are function        *)
(* objects told apart by number; moving a deleter leaves the source as is. *)
(*                                                                         *)
(* Spec runs the operations along their normal-return paths: no resource   *)
(* or deleter operation throws.  SpecThrow adds, for a Resource or a       *)
(* Deleter whose operations may throw, the paths on which a constructor, a *)
(* move assignment or a swap of the guard ends with an exception.          *)
(***************************************************************************)
EXTENDS Integers, Sequences, FiniteSets, TLC

\* Number of guard objects a run constructs (a destroyed guard is not reused).
MaxGuards == 2
\* Number of distinct allocated resource values the environment hands out.
MaxRes == 2
\* Number of operations (constructions and destructions included) of a run.
MaxOps == 5
\* The same for a run with a Resource or a Deleter whose operations may throw.
MaxThrowOps == 4

Guards == 1..MaxGuards

\* Traits::make_default(): the default, unallocated resource value.  A
\* value-initialised handle of the flag-tracked storage is the same value.
Traits_make_default == 0
\* A second unallocated resource value (like any negative file descriptor).
OtherUnallocated == -1
\* Traits::is_allocated(res): res is not one of the unallocated values.
Traits_is_allocated(res) == res > 0

Values == {OtherUnallocated, Traits_make_default} \cup (1..MaxRes)

\* The values a caller of make_unique_resource_checked passes as `invalid`.
InvalidValues == {OtherUnallocated, Traits_make_default}

\* Deleter(): the default-constructed deleter.
DefaultDeleter == 0
\* Every guard a caller constructs with a deleter gets a deleter of its own.
DeleterFor(i) == i

\* Resource and Deleter of a build whose operations are all noexcept, and the
\* builds in which the operations of one or of both may throw (resource: its
\* constructors, assignment and swap; deleter: those and its call operator).
\* The objects that a program with a reference-typed resource (Resource = T&)
\* binds guards to, named by their addresses, and the values they take.
Addresses == 0 .. MaxRes - 1
ObjectValues == 0 .. 1
\* A program whose resource type is no reference looks at no such object.
NoReferents == [a \in Addresses |-> 0]

NothrowTypes == [resource |-> TRUE, deleter |-> TRUE]
ThrowingTypes == [resource : BOOLEAN, deleter : BOOLEAN] \ {NothrowTypes}

VARIABLES
    traits,     \* use_deallocated_state< Resource, Traits >::value of the build
    nothrow,    \* which of Resource and Deleter have only noexcept operations
    guard,      \* guard[i]: lifetime state and m_data of guard object i
    calls,      \* every deleter invocation so far, in order: <<deleter, resource>>
    handed,     \* resource values taken into a guard as allocated
    released,   \* resource values given back by release()
    nops,       \* operations performed so far
    pc,         \* the position inside a swap() that is under way, or Idle
    referent,   \* the objects a guard of a reference-typed resource may refer
                \* to: the value of each, by address
    hist        \* per guard: how it was constructed (until it is operated on),
                \* the last operation on it, and what its destructor invoked

vars == <<traits, nothrow, guard, calls, handed, released, nops, pc, referent, hist>>

----------------------------------------------------------------------------
\* unique_resource_data: storage and allocation-state tracking

\* m_data of a guard.  m_allocated exists in the flag-tracked storage only;
\* the traits-tracked storage keeps it FALSE here and never reads it.
Data(res, del, allocated) == [res |-> res, del |-> del, m_allocated |-> allocated]

is_allocated(d) ==
    IF traits THEN Traits_is_allocated(d.res) ELSE d.m_allocated

\* (mutant) set_deallocated() that leaves the state as it is
set_deallocated_keeps(d) == d

set_deallocated(d) ==
    IF traits THEN [d EXCEPT !.res = Traits_make_default]
              ELSE [d EXCEPT !.m_allocated = FALSE]

\* (mutant) assign_resource() that stores the value and leaves the flag alone
assign_resource_keeps_flag(d, res) == [d EXCEPT !.res = res]

assign_resource(d, res) ==
    IF traits THEN [d EXCEPT !.res = res]
              ELSE [d EXCEPT !.res = res, !.m_allocated = TRUE]

\* (mutant) an assignment to the wrapper that assigns to the object referred
\* to, as an assignment to a T& does
ref_wrapper_assign_through(m_value, objects, value) ==
    [m_value |-> m_value, objects |-> [objects EXCEPT ![m_value] = objects[value]]]

\* detail::ref_wrapper< T >, the internal resource of Resource = T&.
\* ref_wrapper(T& value): m_value is the address of value.
ref_wrapper(value) == value

\* ref_wrapper::operator= (T& value): m_value becomes the address of value.
\* Result: the new m_value and the objects.
ref_wrapper_assign(m_value, objects, value) ==
    [m_value |-> value, objects |-> objects]

\* ref_wrapper::operator T& (): the object at m_value.
ref_wrapper_get(m_value, objects) == objects[m_value]

\* assign_resource(R&& res) of the flag-tracked storage whose internal resource
\* is a ref_wrapper.  Result: the new m_data and the objects.
assign_resource_ref(d, objects, value) ==
    LET w == ref_wrapper_assign(d.res, objects, value)
    IN  [data |-> [d EXCEPT !.res = w.m_value, !.m_allocated = TRUE],
         objects |-> w.objects]

\* unique_resource_data(): default resource, default deleter, not allocated.
data_default == Data(Traits_make_default, DefaultDeleter, FALSE)

\* (mutant) a storage for the default resource that is marked allocated
data_default_resource_allocated(del) == Data(Traits_make_default, del, TRUE)

\* (mutant) a storage for the default resource that does not keep the deleter
data_default_resource_drops_deleter(del) == data_default

\* unique_resource_data(default_resource_t, D&& del)
data_default_resource(del) == Data(Traits_make_default, del, FALSE)

\* (mutant) a flag-tracked storage that asks the value whether it is allocated
data_construct_checks_value(res, del) == Data(res, del, Traits_is_allocated(res))

\* unique_resource_data(R&& res, D&& del): the flag-tracked storage is always
\* allocated, the traits-tracked storage is allocated as the value says.
data_construct(res, del) ==
    IF traits THEN Data(res, del, FALSE) ELSE Data(res, del, TRUE)

\* The store of all guards' m_data, by guard index: the operations that take
\* two guards are written over the store so that `this` and `that` may be
\* the same object.
Store == [i \in Guards |-> guard[i].data]

\* (mutant) a move constructor that does not deactivate the move source
data_move_construct_keeps_source(S, that) ==
    LET src == S[that]
    IN  [new |-> Data(src.res, src.del, src.m_allocated), S |-> S]

\* (mutant) a move constructor that takes the resource but not its allocation state
data_move_construct_drops_state(S, that) ==
    LET src == S[that]
    IN  [new |-> set_deallocated(Data(src.res, src.del, FALSE)),
         S |-> [S EXCEPT ![that] = set_deallocated(src)]]

\* unique_resource_data(unique_resource_data&& that): the new object takes the
\* resource, the deleter and the allocation state; `that` is deactivated.
\* Result: the new m_data and the store with `that` updated.
data_move_construct(S, that) ==
    LET src == S[that]
        new == IF traits THEN Data(src.res, src.del, FALSE)
                         ELSE Data(src.res, src.del, src.m_allocated)
    IN  [new |-> new, S |-> [S EXCEPT ![that] = set_deallocated(src)]]

\* (mutant) a move assignment that does not deactivate the move source
data_assign_keeps_source(S, this, that) ==
    LET S1 == [S EXCEPT ![this].res = S[that].res]
        S2 == [S1 EXCEPT ![this].del = S1[that].del]
    IN  IF traits THEN S2
                  ELSE [S2 EXCEPT ![this].m_allocated = S2[that].m_allocated]

\* unique_resource_data::operator= (unique_resource_data&& that) -> assign():
\* the resource and the deleter are assigned, then the flag is taken over
\* and the source's flag is cleared (traits: that.set_deallocated()).
data_assign(S, this, that) ==
    LET S1 == [S EXCEPT ![this].res = S[that].res]
        S2 == [S1 EXCEPT ![this].del = S1[that].del]
        S3 == IF traits THEN S2
                        ELSE [S2 EXCEPT ![this].m_allocated = S2[that].m_allocated]
    IN  [S3 EXCEPT ![that] = set_deallocated(S3[that])]

\* unique_resource_data::swap exists if at least one of the resource and the
\* deleter is nothrow swappable.
is_swappable == nothrow.resource \/ nothrow.deleter

\* (mutant) a swap that exchanges the resources and the flags, not the deleters
data_swap_keeps_deleters(S, this, that) ==
    LET S1 == [S EXCEPT ![this].res = S[that].res, ![that].res = S[this].res]
    IN  IF traits THEN S1
        ELSE [S1 EXCEPT ![this].m_allocated = S1[that].m_allocated,
                        ![that].m_allocated = S1[this].m_allocated]

\* unique_resource_data::swap -> swap_impl(): resources, deleters, then flags.
data_swap(S, this, that) ==
    LET S1 == [S EXCEPT ![this].res = S[that].res, ![that].res = S[this].res]
        S2 == [S1 EXCEPT ![this].del = S1[that].del, ![that].del = S1[this].del]
    IN  IF traits THEN S2
        ELSE [S2 EXCEPT ![this].m_allocated = S2[that].m_allocated,
                        ![that].m_allocated = S2[this].m_allocated]

\* (mutant) a resource_holder that invokes the deleter whatever `allocated` says
resource_holder_throws_always(res, del, alloc) == << <<del, res>> >>

\* resource_holder(R&& res, D&& del, bool allocated) when the construction of
\* the resource throws: the handler invokes del on the argument res if
\* allocated.  Result: the invocations made.
resource_holder_throws(res, del, alloc) ==
    IF alloc THEN << <<del, res>> >> ELSE <<>>

\* (mutant) a deleter_holder that lets the exception pass without any cleanup
deleter_holder_throws_silent(del, res, alloc) == <<>>

\* deleter_holder(D&& del, resource_type& res, bool allocated) when the
\* construction of the deleter throws: the handler invokes the argument del on
\* the stored resource res if allocated.  Result: the invocations made.
deleter_holder_throws(del, res, alloc) ==
    IF alloc THEN << <<del, res>> >> ELSE <<>>

\* unique_resource_data(R&& res, D&& del) when the construction of the resource
\* (where = "resource") or, after it, of the deleter (where = "deleter") throws.
\* No object comes to exist.  Result: the invocations made.
data_construct_throws(res, del, where) ==
    LET alloc == IF traits THEN Traits_is_allocated(res) ELSE TRUE
    IN  IF where = "resource" THEN resource_holder_throws(res, del, alloc)
                              ELSE deleter_holder_throws(del, res, alloc)

\* (mutant) a move constructor whose handler leaves the source allocated
data_move_construct_throws_keeps_source(S, that, where) ==
    LET src == S[that]
        moved == nothrow.resource /\ is_allocated(src)
    IN  [S |-> S,
         called |-> IF nothrow.deleter \/ where = "resource" THEN <<>>
                    ELSE deleter_holder_throws(src.del, src.res, moved)]

\* (mutant) a move constructor that lets the deleter holder clean up a resource
\* that was copied, not moved
data_move_construct_throws_cleans_copy(S, that, where) ==
    LET src == S[that]
    IN  [S |-> IF ~nothrow.deleter /\ nothrow.resource
                   THEN [S EXCEPT ![that] = set_deallocated(src)] ELSE S,
         called |-> IF nothrow.deleter \/ where = "resource" THEN <<>>
                    ELSE deleter_holder_throws(src.del, src.res, is_allocated(src))]

\* unique_resource_data(unique_resource_data&& that) when the construction of
\* the resource (where = "resource") or of the deleter (where = "deleter")
\* throws.  A nothrow constructible deleter selects the constructor without a
\* handler, in which only the resource can throw.  Otherwise the deleter holder
\* is told to clean up if the resource was moved (nothrow) and `that` was
\* allocated, and the handler deactivates `that` if the resource is one that
\* is moved.  No object comes to exist.  Result: the store with `that`
\* updated, and the invocations made.
data_move_construct_throws(S, that, where) ==
    LET src == S[that]
        moved == nothrow.resource /\ is_allocated(src)
    IN  IF nothrow.deleter
            THEN [S |-> S, called |-> <<>>]
            ELSE [S |-> IF nothrow.resource
                            THEN [S EXCEPT ![that] = set_deallocated(src)] ELSE S,
                  called |-> IF where = "resource" THEN <<>>
                             ELSE deleter_holder_throws(src.del, src.res, moved)]

\* (mutant) assign() with the two orders the other way round
assign_order_reversed ==
    IF nothrow.deleter THEN <<"deleter", "resource">> ELSE <<"resource", "deleter">>

\* unique_resource_data::assign(that, is_nothrow_move_assignable< deleter >):
\* the order of its two assignments.  A nothrow move-assignable deleter selects
\* assign(that, true_type), resource then deleter; otherwise
\* assign(that, false_type), deleter then resource.
assign_order ==
    IF nothrow.deleter THEN <<"resource", "deleter">> ELSE <<"deleter", "resource">>

\* The assignment of one part of that's storage to this'.
assign_part(S, this, that, part) ==
    IF part = "resource" THEN [S EXCEPT ![this].res = S[that].res]
                         ELSE [S EXCEPT ![this].del = S[that].del]

\* (mutant) assign() that moves the flag before it assigns the two parts
data_assign_throws_flags_first(S, this, that, where) ==
    LET S1 == IF traits THEN S
                        ELSE [S EXCEPT ![this].m_allocated = S[that].m_allocated]
        S2 == [S1 EXCEPT ![that] = set_deallocated(S1[that])]
    IN  IF where = assign_order[1]
            THEN S2
            ELSE assign_part(S2, this, that, assign_order[1])

\* unique_resource_data::operator= (unique_resource_data&& that) -> assign()
\* when the assignment of the part `where` throws: the first assignment throws
\* and nothing is assigned, or the second one throws after the first part is
\* assigned.  A throwing assignment leaves its target as it was.  The flags
\* are not reached.
data_assign_throws(S, this, that, where) ==
    IF where = assign_order[1]
        THEN S
        ELSE assign_part(S, this, that, assign_order[1])

\* Exchange of the resources, and of the deleters, of two storages.
swap_resources(S, this, that) ==
    [S EXCEPT ![this].res = S[that].res, ![that].res = S[this].res]

swap_deleters(S, this, that) ==
    [S EXCEPT ![this].del = S[that].del, ![that].del = S[this].del]

\* (mutant) a swap that does not swap the first part back
data_swap_throws_no_rollback(S, this, that) ==
    IF nothrow.resource THEN swap_resources(S, this, that)
                        ELSE swap_deleters(S, this, that)

\* unique_resource_data::swap -> swap_impl() when the swap of the one part that
\* may throw does: the nothrow part is swapped first, the other swap throws
\* and leaves its part as it was, and the handler swaps the first part back.
\* The flags are not reached.
data_swap_throws(S, this, that) ==
    IF nothrow.resource
        THEN swap_resources(swap_resources(S, this, that), this, that)
        ELSE swap_deleters(swap_deleters(S, this, that), this, that)

\* (mutant) swap() that swaps the part that may throw first
swap_order_reversed ==
    IF nothrow.resource THEN <<"deleter", "resource">> ELSE <<"resource", "deleter">>

\* unique_resource_data::swap(): the order of swap_impl()'s two swaps.  A
\* nothrow swappable resource selects swap_impl(that, true_type, ...), resource
\* then deleter; otherwise swap_impl(that, false_type, false_type), deleter
\* then resource.
swap_order ==
    IF nothrow.resource THEN <<"resource", "deleter">> ELSE <<"deleter", "resource">>

\* The swap of one part of the two storages.
swap_part(S, this, that, part) ==
    IF part = "resource" THEN swap_resources(S, this, that)
                         ELSE swap_deleters(S, this, that)

\* The end of swap_impl() in the flag-tracked storage: m_allocated of the two
\* storages is exchanged.  The traits-tracked storage has no flag.
swap_flags(S, this, that) ==
    IF traits THEN S
    ELSE [S EXCEPT ![this].m_allocated = S[that].m_allocated,
                   ![that].m_allocated = S[this].m_allocated]

----------------------------------------------------------------------------
\* unique_resource: the guard

\* One deleter invocation: get_deleter()(get_resource()).
Call(d) == <<d.del, d.res>>

\* (mutant) reset() that deactivates the guard without invoking the deleter
reset_skips_deleter(d) == [data |-> set_deallocated(d), called |-> <<>>]

\* (mutant) reset() that invokes the deleter whatever the allocation state
reset_unconditional(d) == [data |-> set_deallocated(d), called |-> <<Call(d)>>]

\* reset(): if allocated, invoke the deleter on the resource and mark the
\* guard unallocated.  Result: the new m_data and the invocations made.
reset(d) ==
    IF is_allocated(d)
        THEN [data |-> set_deallocated(d), called |-> <<Call(d)>>]
        ELSE [data |-> d, called |-> <<>>]

\* (mutant) a reset() that marks the guard unallocated before the deleter throws
reset_throws_deactivates(d) == [data |-> set_deallocated(d), called |-> <<Call(d)>>]

\* reset() of an allocated guard when the deleter throws: the deleter is
\* invoked, the exception leaves reset() and set_deallocated() is not reached.
reset_throws(d) == [data |-> d, called |-> <<Call(d)>>]

\* (mutant) release() that also puts the default value in place of the resource
release_clears_resource(d) == [set_deallocated(d) EXCEPT !.res = Traits_make_default]

\* release(): m_data.set_deallocated(), no deleter invocation.
release(d) == set_deallocated(d)

\* (mutant) reset(R&& res) that stores the new value before it resets
reset_impl_assign_first(d, res) ==
    LET r == reset(assign_resource(d, res))
    IN  [data |-> assign_resource(r.data, res), called |-> r.called]

\* reset(R&& res) -> reset_impl(): reset(), then m_data.assign_resource(res).
reset_impl(d, res) ==
    LET r == reset(d)
    IN  [data |-> assign_resource(r.data, res), called |-> r.called]

\* (mutant) a reset(R&& res) whose handler does not invoke the deleter
reset_impl_throws_no_cleanup(d, res, where) ==
    IF where = "reset"
        THEN reset_throws(d)
        ELSE reset(d)

\* (mutant) a reset(R&& res) whose handler asks whether res is allocated
reset_impl_throws_if_allocated(d, res, where) ==
    LET r == IF where = "reset" THEN reset_throws(d) ELSE reset(d)
        alloc == is_allocated(assign_resource(r.data, res))
    IN  [data |-> r.data,
         called |-> r.called \o (IF alloc THEN << <<r.data.del, res>> >> ELSE <<>>)]

\* (mutant) a reset(R&& res) that stores res although it throws
reset_impl_throws_stores(d, res, where) ==
    LET r == IF where = "reset" THEN reset_throws(d) ELSE reset(d)
    IN  [data |-> assign_resource(r.data, res),
         called |-> r.called \o << <<r.data.del, res>> >>]

\* reset(R&& res) -> reset_impl(res, false_type) when it throws: from reset(),
\* whose deleter invocation throws (where = "reset"), or, after reset(), from
\* the assignment of res to the stored resource, which is left as it was
\* (where = "resource").  The handler invokes the stored deleter on res and
\* the exception goes on to the caller.
reset_impl_throws(d, res, where) ==
    LET r == IF where = "reset" THEN reset_throws(d) ELSE reset(d)
    IN  [data |-> r.data, called |-> r.called \o << <<r.data.del, res>> >>]

\* (mutant) make_unique_resource_checked() that does not compare with `invalid`
make_unique_resource_checked_any(res, invalid, del) == data_construct(res, del)

\* make_unique_resource_checked(res, invalid, del): m_data of the returned
\* guard, unique_resource(res, del) if !(res == invalid) and
\* unique_resource(default_resource, del) otherwise.
make_unique_resource_checked(res, invalid, del) ==
    IF ~(res = invalid) THEN data_construct(res, del)
                        ELSE data_default_resource(del)

\* (mutant) a move assignment that does not reset() the target first
move_assign_no_reset(S, this, that) ==
    [S |-> data_assign(S, this, that), called |-> <<>>]

\* (mutant) a move assignment that resets the target after the data is assigned
move_assign_reset_last(S, this, that) ==
    LET S1 == data_assign(S, this, that)
        r  == reset(S1[this])
    IN  [S |-> [S1 EXCEPT ![this] = r.data], called |-> r.called]

\* operator= (unique_resource&& that): reset(), then m_data = move(that.m_data).
move_assign(S, this, that) ==
    LET r  == reset(S[this])
        S1 == [S EXCEPT ![this] = r.data]
    IN  [S |-> data_assign(S1, this, that), called |-> r.called]

\* (mutant) a move assignment that deactivates the source before it assigns
move_assign_throws_clears_source(S, this, that, where) ==
    LET r  == reset(S[this])
        S1 == [S EXCEPT ![this] = r.data]
        S2 == data_assign_throws(S1, this, that, where)
    IN  [S |-> [S2 EXCEPT ![that] = set_deallocated(S2[that])], called |-> r.called]

\* operator= (unique_resource&& that) when it throws: from reset(), in which
\* the deleter is invoked, throws, and the guard is not marked unallocated
\* (where = "reset"), or, after reset(), from the assignment of the data.
move_assign_throws(S, this, that, where) ==
    IF where = "reset"
        THEN [S |-> S, called |-> <<Call(S[this])>>]
        ELSE LET r  == reset(S[this])
                 S1 == [S EXCEPT ![this] = r.data]
             IN  [S |-> data_assign_throws(S1, this, that, where), called |-> r.called]

----------------------------------------------------------------------------
\* The program: guards are constructed, operated on and destroyed

Live(i) == guard[i].st = "live"
Dead(i) == guard[i].st = "dead"

\* allocated() of guard i
allocated(i) == is_allocated(guard[i].data)

\* The next guard object to construct.
IsNext(i) == /\ guard[i].st = "unborn"
             /\ \A k \in Guards : k < i => guard[k].st # "unborn"

\* The values a guard takes as allocated: every value is one to the
\* flag-tracked storage, the default value included.
Allocatable == IF traits THEN {v \in Values : Traits_is_allocated(v)}
                         ELSE {v \in Values : Traits_make_default <= v /\ v < MaxRes}

\* The environment hands every resource value that a guard takes as allocated
\* to a guard once, in increasing order; the unallocated values, which the
\* traits tell apart, may be handed any number of times.
CanHand(res) ==
    \/ /\ res \in Allocatable
       /\ res \notin handed
       /\ \A v \in Allocatable : v < res => v \in handed
    \/ /\ traits
       /\ res \in Values \ Allocatable

\* History of a guard: the constructor that built it with its arguments (from:
\* the move source; alloc: whether the move source was allocated), kept until
\* the first further operation on the guard; the last operation on the guard;
\* and, once it is destroyed, the deleter invocations of its destructor.  A
\* move or a move assignment that threw leaves such a record of the state of
\* its source as well.
NoCtor == [kind |-> "none", res |-> Traits_make_default, del |-> DefaultDeleter,
           alloc |-> FALSE, from |-> 0]

NoHist == [ctor |-> NoCtor, lastOp |-> "none", dcalls |-> <<>>]

Born(kind, res, del, alloc, from) ==
    [ctor |-> [kind |-> kind, res |-> res, del |-> del, alloc |-> alloc, from |-> from],
     lastOp |-> kind, dcalls |-> <<>>]

Touch(op) == [ctor |-> NoCtor, lastOp |-> op, dcalls |-> <<>>]

\* Every operation counts against the length of the run.
Budget == IF nothrow = NothrowTypes THEN MaxOps ELSE MaxThrowOps

\* No operation is under way: the program is between two operations.
Idle == [step |-> "idle"]

\* An operation begins when no other is under way, and runs to its end.
Tick == pc = Idle /\ nops < Budget /\ nops' = nops + 1 /\ pc' = pc

Init ==
    /\ traits \in BOOLEAN
    /\ nothrow = NothrowTypes
    /\ guard = [i \in Guards |-> [st |-> "unborn", data |-> data_default]]
    /\ calls = <<>>
    /\ handed = {}
    /\ released = {}
    /\ nops = 0
    /\ pc = Idle
    /\ referent = NoReferents
    /\ hist = [i \in Guards |-> NoHist]

\* unique_resource(): an unallocated guard with default resource and deleter
ConstructEmpty(i) ==
    /\ Tick
    /\ IsNext(i)
    /\ guard' = [guard EXCEPT ![i] = [st |-> "live", data |-> data_default]]
    /\ hist' = [hist EXCEPT ![i] = Born("construct_empty", Traits_make_default,
                                        DefaultDeleter, FALSE, 0)]
    /\ UNCHANGED <<traits, nothrow, referent, calls, handed, released>>

\* unique_resource(default_resource_t, D&& del)
ConstructDefaultResource(i, del) ==
    /\ Tick
    /\ IsNext(i)
    /\ guard' = [guard EXCEPT ![i] = [st |-> "live", data |-> data_default_resource(del)]]
    /\ hist' = [hist EXCEPT ![i] = Born("construct_default_resource", Traits_make_default,
                                        del, FALSE, 0)]
    /\ UNCHANGED <<traits, nothrow, referent, calls, handed, released>>

\* unique_resource(R&& res, D&& del)
Construct(i, res, del) ==
    /\ Tick
    /\ IsNext(i)
    /\ CanHand(res)
    /\ LET d == data_construct(res, del)
       IN  /\ guard' = [guard EXCEPT ![i] = [st |-> "live", data |-> d]]
           /\ handed' = IF is_allocated(d) THEN handed \cup {res} ELSE handed
           /\ hist' = [hist EXCEPT ![i] = Born("construct", res, del, is_allocated(d), 0)]
    /\ UNCHANGED <<traits, nothrow, referent, calls, released>>

\* unique_resource(R&& res): as unique_resource(res, Deleter())
ConstructResource(i, res) ==
    /\ Tick
    /\ IsNext(i)
    /\ CanHand(res)
    /\ LET d == data_construct(res, DefaultDeleter)
       IN  /\ guard' = [guard EXCEPT ![i] = [st |-> "live", data |-> d]]
           /\ handed' = IF is_allocated(d) THEN handed \cup {res} ELSE handed
           /\ hist' = [hist EXCEPT ![i] = Born("construct_resource", res, DefaultDeleter,
                                               is_allocated(d), 0)]
    /\ UNCHANGED <<traits, nothrow, referent, calls, released>>

\* make_unique_resource_checked(res, invalid, del); its result type has no
\* resource traits.  A res equal to invalid is not taken as allocated.
MakeChecked(i, res, invalid, del) ==
    /\ Tick
    /\ IsNext(i)
    /\ ~traits
    /\ res = invalid \/ CanHand(res)
    /\ LET d == make_unique_resource_checked(res, invalid, del)
       IN  /\ guard' = [guard EXCEPT ![i] = [st |-> "live", data |-> d]]
           /\ handed' = IF is_allocated(d) THEN handed \cup {res} ELSE handed
           /\ hist' = [hist EXCEPT ![i] = Born("make_checked", res, del, ~(res = invalid), 0)]
    /\ UNCHANGED <<traits, nothrow, referent, calls, released>>

\* unique_resource(unique_resource&& that)
MoveConstruct(i, that) ==
    /\ Tick
    /\ IsNext(i)
    /\ Live(that)
    /\ LET r == data_move_construct(Store, that)
       IN  guard' = [k \in Guards |->
                       IF k = i THEN [st |-> "live", data |-> r.new]
                                ELSE [guard[k] EXCEPT !.data = r.S[k]]]
    /\ hist' = [hist EXCEPT
                  ![i] = Born("move_construct", guard[that].data.res, guard[that].data.del,
                              allocated(that), that),
                  ![that] = Touch("moved_from")]
    /\ UNCHANGED <<traits, nothrow, referent, calls, handed, released>>

\* operator= (unique_resource&& that)
MoveAssign(this, that) ==
    /\ Tick
    /\ Live(this)
    /\ Live(that)
    /\ LET r == move_assign(Store, this, that)
       IN  /\ guard' = [k \in Guards |-> [guard[k] EXCEPT !.data = r.S[k]]]
           /\ calls' = calls \o r.called
    /\ hist' = [k \in Guards |->
                  IF k = this THEN Touch("move_assign")
                  ELSE IF k = that THEN Touch("moved_from")
                  ELSE hist[k]]
    /\ UNCHANGED <<traits, nothrow, referent, handed, released>>

\* swap(unique_resource& that)
Swap(this, that) ==
    /\ Tick
    /\ Live(this)
    /\ Live(that)
    /\ is_swappable
    /\ LET S == data_swap(Store, this, that)
       IN  guard' = [k \in Guards |-> [guard[k] EXCEPT !.data = S[k]]]
    /\ hist' = [k \in Guards |->
                  IF k = this THEN Touch("swap")
                  ELSE IF k = that THEN Touch("swap")
                  ELSE hist[k]]
    /\ UNCHANGED <<traits, nothrow, referent, calls, handed, released>>

\* reset()
Reset(i) ==
    /\ Tick
    /\ Live(i)
    /\ LET r == reset(guard[i].data)
       IN  /\ guard' = [guard EXCEPT ![i].data = r.data]
           /\ calls' = calls \o r.called
    /\ hist' = [hist EXCEPT ![i] = Touch(IF hist[i].lastOp \in {"reset", "reset_again"}
                                            THEN "reset_again" ELSE "reset")]
    /\ UNCHANGED <<traits, nothrow, referent, handed, released>>

\* reset(R&& res)
ResetWith(i, res) ==
    /\ Tick
    /\ Live(i)
    /\ CanHand(res)
    /\ LET r == reset_impl(guard[i].data, res)
       IN  /\ guard' = [guard EXCEPT ![i].data = r.data]
           /\ calls' = calls \o r.called
           /\ handed' = IF is_allocated(r.data) THEN handed \cup {res} ELSE handed
    /\ hist' = [hist EXCEPT ![i] = Touch("reset_with")]
    /\ UNCHANGED <<traits, nothrow, referent, released>>

\* release()
Release(i) ==
    /\ Tick
    /\ Live(i)
    /\ guard' = [guard EXCEPT ![i].data = release(@)]
    /\ released' = IF allocated(i) THEN released \cup {guard[i].data.res} ELSE released
    /\ hist' = [hist EXCEPT ![i] = Touch("release")]
    /\ UNCHANGED <<traits, nothrow, referent, calls, handed>>

\* ~unique_resource(): reset(), and the object is gone
Destroy(i) ==
    /\ Tick
    /\ Live(i)
    /\ LET r == reset(guard[i].data)
       IN  /\ guard' = [guard EXCEPT ![i] = [st |-> "dead", data |-> data_default]]
           /\ calls' = calls \o r.called
           /\ hist' = [hist EXCEPT ![i].dcalls = r.called]
    /\ UNCHANGED <<traits, nothrow, referent, handed, released>>

\* The operations of a type that may throw: `where` names the failing step.
MayThrow(where) ==
    \/ where = "resource" /\ ~nothrow.resource
    \/ where = "deleter" /\ ~nothrow.deleter

\* A constructor of guard object i ended with an exception: the object never
\* existed.  hist keeps what the constructor was given and what it invoked.
Failed(i, kind, res, del, alloc, from, called) ==
    [hist EXCEPT ![i] = [Born(kind, res, del, alloc, from) EXCEPT !.dcalls = called]]

\* unique_resource(R&& res, D&& del) that throws
ConstructThrows(i, res, del, where) ==
    /\ Tick
    /\ IsNext(i)
    /\ CanHand(res)
    /\ MayThrow(where)
    /\ LET called == data_construct_throws(res, del, where)
       IN  /\ guard' = [guard EXCEPT ![i].st = "failed"]
           /\ calls' = calls \o called
           /\ handed' = IF is_allocated(data_construct(res, del))
                            THEN handed \cup {res} ELSE handed
           /\ hist' = Failed(i, IF where = "resource" THEN "construct_threw_resource"
                                                       ELSE "construct_threw_deleter",
                             res, del, is_allocated(data_construct(res, del)), 0, called)
    /\ UNCHANGED <<traits, nothrow, referent, released>>

\* unique_resource(unique_resource&& that) that throws
MoveConstructThrows(i, that, where) ==
    /\ Tick
    /\ IsNext(i)
    /\ Live(that)
    /\ MayThrow(where)
    /\ LET r == data_move_construct_throws(Store, that, where)
           kind == IF where = "resource" THEN "move_construct_threw_resource"
                                         ELSE "move_construct_threw_deleter"
       IN  /\ guard' = [k \in Guards |->
                          IF k = i THEN [guard[k] EXCEPT !.st = "failed"]
                                   ELSE [guard[k] EXCEPT !.data = r.S[k]]]
           /\ calls' = calls \o r.called
           /\ hist' = [Failed(i, kind, guard[that].data.res, guard[that].data.del,
                              allocated(that), that, r.called)
                         EXCEPT ![that] = Born(kind, guard[that].data.res,
                                               guard[that].data.del, allocated(that), 0)]
    /\ UNCHANGED <<traits, nothrow, referent, handed, released>>

\* operator= (unique_resource&& that) that throws
MoveAssignThrows(this, that, where) ==
    /\ Tick
    /\ Live(this)
    /\ Live(that)
    /\ \/ where = "reset" /\ allocated(this) /\ ~nothrow.deleter
       \/ MayThrow(where)
    /\ LET r == move_assign_throws(Store, this, that, where)
       IN  /\ guard' = [k \in Guards |-> [guard[k] EXCEPT !.data = r.S[k]]]
           /\ calls' = calls \o r.called
    /\ hist' = [k \in Guards |->
                  IF k = this THEN Touch("move_assign_threw")
                  ELSE IF k = that
                      THEN Born("move_assign_threw_source", guard[that].data.res,
                                guard[that].data.del, allocated(that), this)
                  ELSE hist[k]]
    /\ UNCHANGED <<traits, nothrow, referent, handed, released>>

\* swap(unique_resource& that) that throws
SwapThrows(this, that) ==
    /\ Tick
    /\ Live(this)
    /\ Live(that)
    /\ is_swappable
    /\ ~nothrow.resource \/ ~nothrow.deleter
    /\ LET S == data_swap_throws(Store, this, that)
       IN  guard' = [k \in Guards |-> [guard[k] EXCEPT !.data = S[k]]]
    /\ hist' = [k \in Guards |->
                  IF k = this THEN Touch("swap_threw")
                  ELSE IF k = that THEN Touch("swap_threw")
                  ELSE hist[k]]
    /\ UNCHANGED <<traits, nothrow, referent, calls, handed, released>>

\* reset() that throws: the deleter does
ResetThrows(i) ==
    /\ Tick
    /\ Live(i)
    /\ allocated(i)
    /\ ~nothrow.deleter
    /\ LET r == reset_throws(guard[i].data)
       IN  /\ guard' = [guard EXCEPT ![i].data = r.data]
           /\ calls' = calls \o r.called
    /\ hist' = [hist EXCEPT ![i] = Touch("reset_threw")]
    /\ UNCHANGED <<traits, nothrow, referent, handed, released>>

\* reset(R&& res) that throws; res is spent on the handler's deleter
\* invocation.  The assignment of the default value of the traits never throws.
ResetWithThrows(i, res, where) ==
    /\ Tick
    /\ Live(i)
    /\ CanHand(res)
    /\ \/ where = "reset" /\ allocated(i) /\ ~nothrow.deleter
       \/ where = "resource" /\ ~nothrow.resource
             /\ ~(traits /\ res = Traits_make_default)
    /\ LET r == reset_impl_throws(guard[i].data, res, where)
       IN  /\ guard' = [guard EXCEPT ![i].data = r.data]
           /\ calls' = calls \o r.called
    /\ handed' = IF is_allocated(assign_resource(guard[i].data, res))
                     THEN handed \cup {res} ELSE handed
    /\ hist' = [hist EXCEPT ![i] = Touch(IF where = "reset" THEN "reset_with_threw_reset"
                                                             ELSE "reset_with_threw_resource")]
    /\ UNCHANGED <<traits, nothrow, referent, released>>

\* ~unique_resource() that throws: the deleter invoked by its reset() does, and
\* the object is gone
DestroyThrows(i) ==
    /\ Tick
    /\ Live(i)
    /\ allocated(i)
    /\ ~nothrow.deleter
    /\ LET r == reset_throws(guard[i].data)
       IN  /\ guard' = [guard EXCEPT ![i] = [st |-> "dead", data |-> data_default]]
           /\ calls' = calls \o r.called
           /\ hist' = [hist EXCEPT ![i] = [Touch("destroy_threw") EXCEPT !.dcalls = r.called]]
    /\ UNCHANGED <<traits, nothrow, referent, handed, released>>

\* One operation of the program.
\* unique_resource< T&, D >(T& res, D&& del): the guard refers to the object
\* at address res
ConstructRef(i, res, del) ==
    /\ Tick
    /\ IsNext(i)
    /\ CanHand(res)
    /\ LET d == data_construct(ref_wrapper(res), del)
       IN  /\ guard' = [guard EXCEPT ![i] = [st |-> "live", data |-> d]]
           /\ handed' = handed \cup {res}
           /\ hist' = [hist EXCEPT ![i] = Born("construct_ref", res, del, TRUE, 0)]
    /\ UNCHANGED <<traits, nothrow, referent, calls, released>>

\* reset(T& res) of a guard of a reference-typed resource: reset(), then
\* m_data.assign_resource(res), which assigns to the ref_wrapper
ResetRef(i, res) ==
    /\ Tick
    /\ Live(i)
    /\ CanHand(res)
    /\ LET r == reset(guard[i].data)
           a == assign_resource_ref(r.data, referent, res)
       IN  /\ guard' = [guard EXCEPT ![i].data = a.data]
           /\ referent' = a.objects
           /\ calls' = calls \o r.called
    /\ handed' = handed \cup {res}
    /\ hist' = [hist EXCEPT ![i] = Touch("reset_ref")]
    /\ UNCHANGED <<traits, nothrow, released>>

\* The program assigns a value to one of its objects; a guard may refer to it.
WriteObject(a, v) ==
    /\ Tick
    /\ referent[a] # v
    /\ referent' = [referent EXCEPT ![a] = v]
    /\ UNCHANGED <<traits, nothrow, guard, calls, handed, released, hist>>

\* swap(unique_resource& that), step by step: the first swap of swap_impl(),
\* which is the swap of a part that is nothrow swappable.  The storages as
\* they were when the swap began are kept in pc.
SwapFirst(this, that) ==
    /\ pc = Idle
    /\ nops < Budget
    /\ nops' = nops + 1
    /\ Live(this)
    /\ Live(that)
    /\ is_swappable
    /\ LET S == swap_part(Store, this, that, swap_order[1])
       IN  guard' = [k \in Guards |-> [guard[k] EXCEPT !.data = S[k]]]
    /\ pc' = [step |-> "first", this |-> this, that |-> that, before |-> Store]
    /\ hist' = [k \in Guards |->
                  IF k \in {this, that} THEN Touch("swapping") ELSE hist[k]]
    /\ UNCHANGED <<traits, nothrow, referent, calls, handed, released>>

\* the second swap of swap_impl() returns
SwapSecond ==
    /\ pc.step = "first"
    /\ LET S == swap_part(Store, pc.this, pc.that, swap_order[2])
       IN  guard' = [k \in Guards |-> [guard[k] EXCEPT !.data = S[k]]]
    /\ pc' = [pc EXCEPT !.step = "second"]
    /\ UNCHANGED <<traits, nothrow, referent, calls, handed, released, nops, hist>>

\* the second swap of swap_impl() throws: the handler swaps the first part
\* back and the exception leaves swap()
SwapSecondThrows ==
    /\ pc.step = "first"
    /\ ~nothrow.resource \/ ~nothrow.deleter
    /\ LET S == swap_part(Store, pc.this, pc.that, swap_order[1])
       IN  guard' = [k \in Guards |-> [guard[k] EXCEPT !.data = S[k]]]
    /\ pc' = Idle
    /\ hist' = [k \in Guards |->
                  IF k \in {pc.this, pc.that} THEN Touch("swap_threw") ELSE hist[k]]
    /\ UNCHANGED <<traits, nothrow, referent, calls, handed, released, nops>>

\* the end of swap_impl(): the flags are exchanged and swap() returns
SwapFlags ==
    /\ pc.step = "second"
    /\ LET S == swap_flags(Store, pc.this, pc.that)
       IN  guard' = [k \in Guards |-> [guard[k] EXCEPT !.data = S[k]]]
    /\ pc' = Idle
    /\ hist' = [k \in Guards |->
                  IF k \in {pc.this, pc.that} THEN Touch("swap") ELSE hist[k]]
    /\ UNCHANGED <<traits, nothrow, referent, calls, handed, released, nops>>

Next ==
    \/ \E i \in Guards : ConstructEmpty(i)
    \/ \E i \in Guards : ConstructDefaultResource(i, DeleterFor(i))
    \/ \E i \in Guards, res \in Values : Construct(i, res, DeleterFor(i))
    \/ \E i, that \in Guards : MoveConstruct(i, that)
    \/ \E this, that \in Guards : MoveAssign(this, that)
    \/ \E this, that \in Guards : Swap(this, that)
    \/ \E i \in Guards : Reset(i)
    \/ \E i \in Guards, res \in Values : ResetWith(i, res)
    \/ \E i \in Guards : Release(i)
    \/ \E i \in Guards : Destroy(i)

Spec == Init /\ [][Next]_vars

\* The program whose guards all come from make_unique_resource_checked, whose
\* result type has no resource traits.
InitChecked ==
    /\ traits = FALSE
    /\ nothrow = NothrowTypes
    /\ guard = [i \in Guards |-> [st |-> "unborn", data |-> data_default]]
    /\ calls = <<>>
    /\ handed = {}
    /\ released = {}
    /\ nops = 0
    /\ pc = Idle
    /\ referent = NoReferents
    /\ hist = [i \in Guards |-> NoHist]

NextChecked ==
    \/ \E i \in Guards, res \in Values, invalid \in InvalidValues :
          MakeChecked(i, res, invalid, DeleterFor(i))
    \/ \E i, that \in Guards : MoveConstruct(i, that)
    \/ \E this, that \in Guards : MoveAssign(this, that)
    \/ \E this, that \in Guards : Swap(this, that)
    \/ \E i \in Guards : Reset(i)
    \/ \E i \in Guards, res \in Values : ResetWith(i, res)
    \/ \E i \in Guards : Release(i)
    \/ \E i \in Guards : Destroy(i)

SpecChecked == InitChecked /\ [][NextChecked]_vars

\* The program that swaps: guards are constructed allocated or unallocated,
\* released, swapped any number of times and destroyed.
NextSwap ==
    \/ \E i \in Guards : ConstructDefaultResource(i, DeleterFor(i))
    \/ \E i \in Guards, res \in Values : Construct(i, res, DeleterFor(i))
    \/ \E this, that \in Guards : Swap(this, that)
    \/ \E i \in Guards : Release(i)
    \/ \E i \in Guards : Destroy(i)

SpecSwap == Init /\ [][NextSwap]_vars

\* The program without moves: guards are constructed by each of the
\* constructors, reset, released and destroyed.
NextConstruct ==
    \/ \E i \in Guards : ConstructEmpty(i)
    \/ \E i \in Guards : ConstructDefaultResource(i, DeleterFor(i))
    \/ \E i \in Guards, res \in Values : ConstructResource(i, res)
    \/ \E i \in Guards, res \in Values : Construct(i, res, DeleterFor(i))
    \/ \E i \in Guards : Reset(i)
    \/ \E i \in Guards, res \in Values : ResetWith(i, res)
    \/ \E i \in Guards : Release(i)
    \/ \E i \in Guards : Destroy(i)

SpecConstruct == Init /\ [][NextConstruct]_vars

\* Guards as automatic objects of nested scopes: a guard is constructed inside
\* the scopes of all guards constructed before it, and the scopes are left
\* innermost first, which destroys the guards in reverse order of construction.
ScopeEnter(i, res, del) ==
    /\ \A k \in Guards : k < i => Live(k)
    /\ Construct(i, res, del)

ScopeExit(i) ==
    /\ \A k \in Guards : k > i => ~Live(k)
    /\ Destroy(i)

NextScoped ==
    \/ \E i \in Guards, res \in Values : ScopeEnter(i, res, DeleterFor(i))
    \/ \E i \in Guards : Reset(i)
    \/ \E i \in Guards, res \in Values : ResetWith(i, res)
    \/ \E i \in Guards : Release(i)
    \/ \E i \in Guards : ScopeExit(i)

SpecScoped == Init /\ [][NextScoped]_vars

\* The program whose guards are all created unallocated with a deleter, by
\* unique_resource(default_resource, del) or by make_unique_resource_checked
\* with res == invalid, and are given their resource later by reset(res).
NextLate ==
    \/ \E i \in Guards : ConstructDefaultResource(i, DeleterFor(i))
    \/ \E i \in Guards, invalid \in InvalidValues :
          MakeChecked(i, invalid, invalid, DeleterFor(i))
    \/ \E i \in Guards : Reset(i)
    \/ \E i \in Guards, res \in Values : ResetWith(i, res)
    \/ \E i \in Guards : Destroy(i)

SpecLate == Init /\ [][NextLate]_vars

\* The program in which every resource value given to a constructor or to
\* reset(res) denotes an allocated resource, with or without resource traits.
\* Its unallocated guards are constructed with a deleter.
AllocatedValues == {v \in Values : traits => Traits_is_allocated(v)}

NextEquiv ==
    \/ \E i \in Guards : ConstructDefaultResource(i, DeleterFor(i))
    \/ \E i \in Guards, res \in AllocatedValues : Construct(i, res, DeleterFor(i))
    \/ \E i, that \in Guards : MoveConstruct(i, that)
    \/ \E this, that \in Guards : MoveAssign(this, that)
    \/ \E this, that \in Guards : Swap(this, that)
    \/ \E i \in Guards : Reset(i)
    \/ \E i \in Guards, res \in AllocatedValues : ResetWith(i, res)
    \/ \E i \in Guards : Release(i)
    \/ \E i \in Guards : Destroy(i)

SpecEquiv == Init /\ [][NextEquiv]_vars

\* The program with a Resource or a Deleter whose operations may throw: guards
\* are constructed, moved, swapped and destroyed, and each of the constructions,
\* move assignments and swaps may end with an exception.
InitThrow ==
    /\ traits \in BOOLEAN
    /\ nothrow \in ThrowingTypes
    /\ guard = [i \in Guards |-> [st |-> "unborn", data |-> data_default]]
    /\ calls = <<>>
    /\ handed = {}
    /\ released = {}
    /\ nops = 0
    /\ pc = Idle
    /\ referent = NoReferents
    /\ hist = [i \in Guards |-> NoHist]

Throws == {"resource", "deleter"}

NextThrow ==
    \/ \E i \in Guards : ConstructDefaultResource(i, DeleterFor(i))
    \/ \E i \in Guards, res \in Values : Construct(i, res, DeleterFor(i))
    \/ \E i, that \in Guards : MoveConstruct(i, that)
    \/ \E this, that \in Guards : MoveAssign(this, that)
    \/ \E this, that \in Guards : Swap(this, that)
    \/ \E i \in Guards : Destroy(i)
    \/ \E i \in Guards, res \in Values, where \in Throws :
          ConstructThrows(i, res, DeleterFor(i), where)
    \/ \E i, that \in Guards, where \in Throws : MoveConstructThrows(i, that, where)
    \/ \E this, that \in Guards, where \in Throws \cup {"reset"} :
          MoveAssignThrows(this, that, where)
    \/ \E this, that \in Guards : SwapThrows(this, that)

SpecThrow == InitThrow /\ [][NextThrow]_vars

\* The program that resets guards whose Resource or Deleter may throw: guards
\* are constructed, reset with and without a new value and destroyed, and each
\* of these may end with an exception.
NextResetThrow ==
    \/ \E i \in Guards : ConstructDefaultResource(i, DeleterFor(i))
    \/ \E i \in Guards, res \in Values : Construct(i, res, DeleterFor(i))
    \/ \E i \in Guards : Reset(i)
    \/ \E i \in Guards, res \in Values : ResetWith(i, res)
    \/ \E i \in Guards : Destroy(i)
    \/ \E i \in Guards, res \in Values, where \in Throws :
          ConstructThrows(i, res, DeleterFor(i), where)
    \/ \E i \in Guards : ResetThrows(i)
    \/ \E i \in Guards, res \in Values, where \in {"reset", "resource"} :
          ResetWithThrows(i, res, where)
    \/ \E i \in Guards : DestroyThrows(i)

SpecResetThrow == InitThrow /\ [][NextResetThrow]_vars

\* The program that swaps, seen step by step inside swap(): the builds are
\* those in which swap() exists, guards are constructed allocated or
\* unallocated, released, swapped and destroyed.
InitSwapSteps ==
    /\ traits \in BOOLEAN
    /\ nothrow \in {t \in [resource : BOOLEAN, deleter : BOOLEAN] :
                       t.resource \/ t.deleter}
    /\ guard = [i \in Guards |-> [st |-> "unborn", data |-> data_default]]
    /\ calls = <<>>
    /\ handed = {}
    /\ released = {}
    /\ nops = 0
    /\ pc = Idle
    /\ referent = NoReferents
    /\ hist = [i \in Guards |-> NoHist]

NextSwapSteps ==
    \/ \E i \in Guards : ConstructEmpty(i)
    \/ \E i \in Guards, res \in Values : Construct(i, res, DeleterFor(i))
    \/ \E this, that \in Guards : SwapFirst(this, that)
    \/ SwapSecond
    \/ SwapSecondThrows
    \/ SwapFlags
    \/ \E i \in Guards : Release(i)
    \/ \E i \in Guards : Destroy(i)

SpecSwapSteps == InitSwapSteps /\ [][NextSwapSteps]_vars

\* The program with a reference-typed resource, unique_resource< T&, D >
\* without resource traits: its objects hold any values, guards are bound to
\* them, rebound, reset, released and destroyed, and the program assigns to
\* the objects.
InitRef ==
    /\ traits = FALSE
    /\ nothrow = NothrowTypes
    /\ guard = [i \in Guards |-> [st |-> "unborn", data |-> data_default]]
    /\ calls = <<>>
    /\ handed = {}
    /\ released = {}
    /\ nops = 0
    /\ pc = Idle
    /\ referent \in [Addresses -> ObjectValues]
    /\ hist = [i \in Guards |-> NoHist]

NextRef ==
    \/ \E i \in Guards, a \in Addresses : ConstructRef(i, a, DeleterFor(i))
    \/ \E i \in Guards, a \in Addresses : ResetRef(i, a)
    \/ \E a \in Addresses, v \in ObjectValues : WriteObject(a, v)
    \/ \E i \in Guards : Reset(i)
    \/ \E i \in Guards : Release(i)
    \/ \E i \in Guards : Destroy(i)

SpecRef == InitRef /\ [][NextRef]_vars

----------------------------------------------------------------------------
\* Properties

\* Number of deleter invocations on the resource value res so far.
Invocations(res) == Cardinality({k \in DOMAIN calls : calls[k][2] = res})

\* The resource argument res of a constructor or of reset(res) denotes an
\* allocated resource: any value without traits, an allocated value with them.
DenotesAllocated(res) == traits => Traits_is_allocated(res)

\* The step's operation on guard i is `op` (hist records it).
StepIs(i, op) == hist'[i].lastOp = op

\* Guard i has not been operated on since its construction by `kind`.
Untouched(i, kind) == hist[i].lastOp = kind /\ hist[i].ctor.kind = kind

\* C1: a guard constructed with an allocated resource r and a deleter D and not
\* otherwise operated on invokes, when destroyed, D exactly once, on r.
C1_DestroyInvokesDeleterOnce ==
    \A i \in Guards :
        (Dead(i) /\ Untouched(i, "construct") /\ DenotesAllocated(hist[i].ctor.res))
            => /\ hist[i].dcalls = << <<hist[i].ctor.del, hist[i].ctor.res>> >>
               /\ Invocations(hist[i].ctor.res) = 1

C1_Witness ==
    \E i \in Guards :
        /\ Dead(i) /\ Untouched(i, "construct")
        /\ DenotesAllocated(hist[i].ctor.res)
        /\ hist[i].dcalls # <<>>

\* C2: release() never invokes the deleter and leaves allocated() == false;
\* a guard destroyed right after release() invokes the deleter zero times.
C2_ReleaseDisarms ==
    /\ [][\A i \in Guards : (StepIs(i, "release") /\ Release(i))
                                => (calls' = calls /\ ~allocated(i)')]_vars
    /\ [](\A i \in Guards : (Dead(i) /\ hist[i].lastOp = "release") => hist[i].dcalls = <<>>)

C2_Witness ==
    \E i \in Guards :
        /\ Dead(i) /\ hist[i].lastOp = "release"
        /\ \E r \in released : r \in handed /\ Invocations(r) = 0

\* C3: when no operation throws, whatever the sequence of constructions, moves,
\* swaps, resets, releases and destructions, no resource value handed to a
\* guard is passed to a deleter more than once.
C3_AtMostOneCleanup ==
    \A res \in Values : Invocations(res) <= 1

C3_Witness ==
    /\ \E i \in Guards : Dead(i) /\ hist[i].lastOp = "move_construct"
    /\ \E i \in Guards : Dead(i) /\ hist[i].lastOp = "moved_from"
    /\ \E res \in handed : Invocations(res) = 1

\* C4: once every guard has been destroyed, every resource value that was taken
\* into a guard as allocated and not released has been passed to a deleter
\* exactly once.
C4_NoLeak ==
    (\A i \in Guards : ~Live(i))
        => \A res \in handed \ released : Invocations(res) = 1

C4_Witness ==
    /\ \A i \in Guards : Dead(i)
    /\ \E i \in Guards : hist[i].lastOp = "move_assign"
    /\ Cardinality(handed \ released) >= 2

\* C5: no two live guards are allocated for the same resource value.
C5_ExclusiveOwnership ==
    \A i, j \in Guards :
        (i # j /\ Live(i) /\ Live(j) /\ allocated(i) /\ allocated(j))
            => guard[i].data.res # guard[j].data.res

C5_Witness ==
    \E i, j \in Guards :
        /\ i # j /\ Live(i) /\ Live(j)
        /\ hist[i].lastOp = "move_construct" /\ hist[j].lastOp = "moved_from"
        /\ allocated(i) /\ ~allocated(j)
        /\ guard[i].data.res = guard[j].data.res

\* C6: move construction, with a = that.allocated() before the operation, ends
\* with this->allocated() == a and that.allocated() == false, in the
\* flag-tracked and in the traits-tracked storage.
C6_MoveConstructPost ==
    [][\A i, that \in Guards :
          (StepIs(i, "move_construct") /\ MoveConstruct(i, that))
            => /\ allocated(i)' = allocated(that)
               /\ ~allocated(that)']_vars

C6_Witness ==
    \E i \in Guards :
        /\ Live(i) /\ Untouched(i, "move_construct") /\ hist[i].ctor.alloc
        /\ Live(hist[i].ctor.from) /\ hist[hist[i].ctor.from].lastOp = "moved_from"
        /\ allocated(i) /\ traits

\* C7: after H is move-constructed from G, destroying G invokes no deleter, and
\* destroying both invokes the deleter exactly once, on G's former resource and
\* with G's former deleter, if G was allocated, and not at all otherwise.
C7_MovedFromDestructorIsNoOp ==
    /\ \A g \in Guards : (Dead(g) /\ hist[g].lastOp = "moved_from") => hist[g].dcalls = <<>>
    /\ \A h \in Guards :
          (Dead(h) /\ Untouched(h, "move_construct")
              /\ Dead(hist[h].ctor.from) /\ hist[hist[h].ctor.from].lastOp = "moved_from")
            => hist[hist[h].ctor.from].dcalls \o hist[h].dcalls
                 = IF hist[h].ctor.alloc
                       THEN << <<hist[h].ctor.del, hist[h].ctor.res>> >>
                       ELSE <<>>

C7_Witness ==
    \E h \in Guards :
        /\ Dead(h) /\ Untouched(h, "move_construct") /\ hist[h].ctor.alloc
        /\ Dead(hist[h].ctor.from) /\ hist[hist[h].ctor.from].lastOp = "moved_from"
        /\ Len(calls) = 1

\* H is still as its move construction from G left it, and G as well.
JustMoveConstructed(h, g) ==
    /\ Live(h) /\ Untouched(h, "move_construct") /\ hist[h].ctor.from = g
    /\ Live(g) /\ hist[g].lastOp = "moved_from"

\* C8 as stated: for every G, allocated or not, exactly one of G and H is
\* allocated after H is move-constructed from G.
C8_ExactlyOneAllocated ==
    \A g, h \in Guards :
        JustMoveConstructed(h, g) => (allocated(g) # allocated(h))

\* C8 amended: after H is move-constructed from G, G is unallocated and H is
\* allocated exactly if G was allocated before the move: exactly one of the two
\* is allocated if G was allocated, and neither is if G was not.
C8_AtMostOneAllocated ==
    \A g, h \in Guards :
        JustMoveConstructed(h, g) => /\ ~allocated(g)
                                     /\ allocated(h) = hist[h].ctor.alloc

C8_Witness ==
    \E g, h \in Guards :
        /\ JustMoveConstructed(h, g)
        /\ ~hist[h].ctor.alloc /\ ~allocated(g) /\ ~allocated(h)

\* C9: move assignment this = move(that), this and that being two guards, first
\* performs this->reset(): the target's own deleter is invoked on the target's
\* previous resource exactly once if the target was allocated, and no other
\* deleter invocation is made; afterwards this->allocated() is what
\* that.allocated() was before and that.allocated() == false.
C9_MoveAssignPost ==
    [][\A this, that \in Guards :
          (this # that /\ StepIs(this, "move_assign") /\ MoveAssign(this, that))
            => /\ calls' = calls \o (IF allocated(this) THEN <<Call(guard[this].data)>>
                                                        ELSE <<>>)
               /\ allocated(this)' = allocated(that)
               /\ ~allocated(that)']_vars

C9_Witness ==
    \E this, that \in Guards :
        /\ this # that /\ Live(this) /\ Live(that)
        /\ hist[this].lastOp = "move_assign" /\ hist[that].lastOp = "moved_from"
        /\ allocated(this) /\ ~allocated(that)
        /\ Len(calls) = 1 /\ calls[1][2] # guard[this].data.res

\* C10: reset() invokes the deleter on the stored resource exactly if the guard
\* is allocated and leaves allocated() == false; a reset() right after a
\* reset() invokes nothing and changes nothing.
C10_ResetIdempotent ==
    [][\A i \in Guards :
          ((StepIs(i, "reset") \/ StepIs(i, "reset_again")) /\ Reset(i))
            => /\ calls' = calls \o (IF allocated(i) THEN <<Call(guard[i].data)>>
                                                      ELSE <<>>)
               /\ ~allocated(i)'
               /\ hist[i].lastOp \in {"reset", "reset_again"}
                    => (calls' = calls /\ guard'[i] = guard[i])]_vars

C10_Witness ==
    \E i \in Guards :
        /\ Live(i) /\ hist[i].lastOp = "reset_again"
        /\ ~allocated(i)
        /\ Len(calls) = 1 /\ calls[1][1] = guard[i].data.del

C13_MakeChecked ==
    /\ [][\A i \in Guards :
             StepIs(i, "make_checked") =>
               \A res \in Values, invalid \in InvalidValues :
                 MakeChecked(i, res, invalid, DeleterFor(i))
                   => /\ calls' = calls
                      /\ allocated(i)' <=> ~(res = invalid)
                      /\ ~(res = invalid) => guard'[i].data.res = res]_vars
    /\ [](\A i \in Guards :
             (Dead(i) /\ Untouched(i, "make_checked"))
               => IF hist[i].ctor.alloc
                      THEN /\ hist[i].dcalls = << <<hist[i].ctor.del, hist[i].ctor.res>> >>
                           /\ Invocations(hist[i].ctor.res) = 1
                      ELSE hist[i].dcalls = <<>>)

C13_Witness ==
    /\ \E i \in Guards :
          /\ Dead(i) /\ Untouched(i, "make_checked")
          /\ ~hist[i].ctor.alloc /\ hist[i].dcalls = <<>>
    /\ \E i \in Guards :
          /\ Dead(i) /\ Untouched(i, "make_checked")
          /\ hist[i].ctor.alloc /\ Len(hist[i].dcalls) = 1

\* C14: a swap that returns normally exchanges the resource, the deleter and
\* the allocation state of the two guards and invokes no deleter; the
\* destruction of a guard after its swap invokes the deleter it received on the
\* resource it received, once, exactly if it received the allocated state.
C14_SwapExchanges ==
    /\ [][\A this \in Guards :
             StepIs(this, "swap") =>
               \A that \in Guards :
                 Swap(this, that)
                   => /\ calls' = calls
                      /\ guard'[this].data.res = guard[that].data.res
                      /\ guard'[this].data.del = guard[that].data.del
                      /\ allocated(this)' = allocated(that)
                      /\ guard'[that].data.res = guard[this].data.res
                      /\ guard'[that].data.del = guard[this].data.del
                      /\ allocated(that)' = allocated(this)]_vars
    /\ [][\A g \in Guards :
             (hist[g].lastOp = "swap" /\ Live(g) /\ Dead(g)')
               => calls' = calls \o (IF allocated(g) THEN <<Call(guard[g].data)>>
                                                      ELSE <<>>)]_vars

\* G = (A, DA, allocated) and H = (B, DB, unallocated) were swapped and both
\* destroyed: the only invocation is DA on A, made by H's destructor.
C14_Witness ==
    \E g, h \in Guards :
        /\ g # h /\ Dead(g) /\ Dead(h)
        /\ hist[g].lastOp = "swap" /\ hist[h].lastOp = "swap"
        /\ hist[g].dcalls = <<>> /\ hist[h].dcalls = calls
        /\ Len(calls) = 1 /\ calls[1][1] = DeleterFor(g) /\ calls[1][2] \in handed

\* A constructor of guard object i ended with an exception (of `kind`).
FailedBy(i, kind) == guard[i].st = "failed" /\ hist[i].ctor.kind = kind

\* The invocation a cleanup of what guard i's history records consists of.
ItsCleanup(i) == << <<hist[i].ctor.del, hist[i].ctor.res>> >>

\* C15: a swap that throws (the swap of the one part that may throw does)
\* invokes no deleter and leaves both guards with exactly the resource, the
\* deleter and the allocation state they had before the call.
C15_SwapAllOrNothing ==
    [][\A this, that \in Guards :
          (StepIs(this, "swap_threw") /\ SwapThrows(this, that))
            => (guard' = guard /\ calls' = calls)]_vars

C15_Witness ==
    \E this, that \in Guards :
        /\ this # that /\ Live(this) /\ Live(that)
        /\ hist[this].lastOp = "swap_threw" /\ hist[that].lastOp = "swap_threw"
        /\ allocated(this) /\ ~allocated(that)
        /\ guard[this].data.res # guard[that].data.res
        /\ guard[this].data.del = DeleterFor(this)
        /\ guard[that].data.del = DeleterFor(that)
        /\ calls = <<>>

\* C16: when unique_resource(res, del), res denoting an allocated resource,
\* throws from the construction of the stored deleter, del has been invoked
\* exactly once, on the stored resource, no guard exists, and that resource is
\* never passed to a deleter again.
C16_DeleterConstructionFails ==
    \A i \in Guards :
        (FailedBy(i, "construct_threw_deleter") /\ DenotesAllocated(hist[i].ctor.res))
            => /\ hist[i].dcalls = ItsCleanup(i)
               /\ Invocations(hist[i].ctor.res) = 1
               /\ ~Live(i) /\ ~Dead(i)

C16_Witness ==
    \E i \in Guards :
        /\ FailedBy(i, "construct_threw_deleter") /\ DenotesAllocated(hist[i].ctor.res)
        /\ Len(hist[i].dcalls) = 1
        /\ \E k \in Guards : Dead(k)

\* C17: when unique_resource(res, del) throws from the construction of the
\* stored resource, del has been invoked exactly once, on res, if res denotes an
\* allocated resource, and not at all if res is an unallocated value; no other
\* invocation is made and no guard exists.
C17_ResourceConstructionFails ==
    \A i \in Guards :
        FailedBy(i, "construct_threw_resource")
            => /\ hist[i].dcalls = IF DenotesAllocated(hist[i].ctor.res)
                                       THEN ItsCleanup(i) ELSE <<>>
               /\ DenotesAllocated(hist[i].ctor.res) => Invocations(hist[i].ctor.res) = 1
               /\ ~Live(i) /\ ~Dead(i)

C17_Witness ==
    \E i, k \in Guards :
        /\ FailedBy(i, "construct_threw_resource") /\ FailedBy(k, "construct_threw_resource")
        /\ DenotesAllocated(hist[i].ctor.res) /\ Len(hist[i].dcalls) = 1
        /\ ~DenotesAllocated(hist[k].ctor.res) /\ hist[k].dcalls = <<>>

\* C18: when move construction from an allocated `that`, the Resource being
\* nothrow move-constructible, throws from the construction of the deleter,
\* the deleter stored in `that` has been invoked exactly once, on the moved
\* resource, `that` is unallocated, no new guard exists, and destroying `that`
\* afterwards invokes no deleter.
C18_MoveConstructDeleterFails ==
    /\ [][\A i, that \in Guards :
             (StepIs(i, "move_construct_threw_deleter") /\ nothrow.resource
                 /\ allocated(that) /\ MoveConstructThrows(i, that, "deleter"))
               => /\ calls' = calls \o <<Call(guard[that].data)>>
                  /\ ~allocated(that)'
                  /\ guard'[i].st = "failed"]_vars
    /\ [](\A that \in Guards :
             (Dead(that) /\ Untouched(that, "move_construct_threw_deleter")
                 /\ nothrow.resource)
               => hist[that].dcalls = <<>>)

C18_Witness ==
    \E that \in Guards :
        /\ Dead(that) /\ Untouched(that, "move_construct_threw_deleter")
        /\ nothrow.resource /\ hist[that].ctor.alloc
        /\ hist[that].dcalls = <<>>
        /\ calls = ItsCleanup(that)

\* The kinds of a move construction that ended with an exception.
MoveConstructThrew == {"move_construct_threw_resource", "move_construct_threw_deleter"}

\* C19: when a move construction that copies the Resource (its move may throw)
\* throws, from the copy of the resource or from the construction of the
\* deleter, it invokes no deleter and leaves `that` as it was; destroying
\* `that` afterwards invokes its deleter on its resource exactly once if it
\* was allocated.
C19_MoveConstructCopyFails ==
    /\ [][\A i, that \in Guards, where \in {"resource", "deleter"} :
             (hist'[i].lastOp \in MoveConstructThrew /\ ~nothrow.resource
                 /\ MoveConstructThrows(i, that, where))
               => /\ calls' = calls
                  /\ guard'[that] = guard[that]
                  /\ guard'[i].st = "failed"]_vars
    /\ [](\A that \in Guards :
             (Dead(that) /\ hist[that].lastOp \in MoveConstructThrew
                 /\ hist[that].ctor.kind = hist[that].lastOp /\ ~nothrow.resource)
               => hist[that].dcalls = IF hist[that].ctor.alloc THEN ItsCleanup(that)
                                                                ELSE <<>>)

C19_Witness ==
    \E that \in Guards :
        /\ Dead(that) /\ Untouched(that, "move_construct_threw_deleter")
        /\ ~nothrow.resource /\ hist[that].ctor.alloc
        /\ calls = ItsCleanup(that) /\ hist[that].dcalls = calls

\* C20: when a move assignment this = move(that), this and that being two
\* guards, throws (from the target's reset(), from the resource assignment or
\* from the deleter assignment), `that` has the resource, the deleter and the
\* allocation state it had before the call, and its destruction afterwards
\* invokes its deleter on its resource exactly once if it is allocated.
C20_MoveAssignFailureKeepsSource ==
    /\ [][\A this, that \in Guards, where \in {"reset", "resource", "deleter"} :
             (this # that /\ StepIs(this, "move_assign_threw")
                 /\ MoveAssignThrows(this, that, where))
               => guard'[that] = guard[that]]_vars
    /\ [](\A that \in Guards :
             (Dead(that) /\ Untouched(that, "move_assign_threw_source"))
               => hist[that].dcalls = IF hist[that].ctor.alloc THEN ItsCleanup(that)
                                                                ELSE <<>>)

C20_Witness ==
    \E this, that \in Guards :
        /\ Dead(that) /\ Untouched(that, "move_assign_threw_source")
        /\ hist[that].ctor.from = this /\ hist[this].lastOp = "move_assign_threw"
        /\ hist[that].ctor.alloc /\ hist[that].dcalls = ItsCleanup(that)
        /\ ~nothrow.resource /\ ~nothrow.deleter

\* m_data of guard `this` between the reset() of a move assignment and the
\* assignment of the data.
AfterReset(this) == reset(guard[this].data).data

\* A move assignment this = move(that), this and that being two guards, throws
\* in this step from the assignment of the part `where`.
AssignThrew(this, that, where) ==
    /\ this # that /\ StepIs(this, "move_assign_threw")
    /\ MoveAssignThrows(this, that, where)

FromResource == {"construct", "construct_resource"}

\* C22: a guard constructed by unique_resource(res, del) or unique_resource(res)
\* holds res and is, without resource traits, allocated whatever the value of
\* res, and with resource traits allocated exactly if Traits::is_allocated(res).
C22_ConstructPost ==
    \A i \in Guards :
        (Live(i) /\ hist[i].lastOp \in FromResource /\ hist[i].ctor.kind = hist[i].lastOp)
            => /\ guard[i].data.res = hist[i].ctor.res
               /\ allocated(i) <=> (IF traits THEN Traits_is_allocated(hist[i].ctor.res)
                                               ELSE TRUE)

\* Without traits: both constructors built an allocated guard, one of them from
\* the default value.
C22_Witness ==
    \E i, k \in Guards :
        /\ ~traits
        /\ Live(i) /\ Untouched(i, "construct_resource")
        /\ Live(k) /\ Untouched(k, "construct")
        /\ allocated(i) /\ allocated(k)
        /\ Traits_make_default \in {guard[i].data.res, guard[k].data.res}

\* The constructors of an unallocated guard.
Unallocating == {"construct_empty", "construct_default_resource"}

\* C23: unique_resource() and unique_resource(default_resource, del) invoke no
\* deleter and build an unallocated guard; reset(), release() and the
\* destructor of an unallocated guard invoke no deleter and leave it
\* unallocated, so that without a reset(v) in between its destruction invokes
\* the deleter zero times.
C23_UnallocatedConstruction ==
    /\ [][\A i \in Guards :
             ((StepIs(i, "construct_empty") /\ ConstructEmpty(i))
                \/ (StepIs(i, "construct_default_resource")
                      /\ ConstructDefaultResource(i, DeleterFor(i))))
               => (calls' = calls /\ Live(i)' /\ ~allocated(i)')]_vars
    /\ [][\A i \in Guards :
             (Live(i) /\ ~allocated(i) /\ (Reset(i) \/ Release(i) \/ Destroy(i)))
               => (calls' = calls /\ ~allocated(i)')]_vars
    /\ [](\A i \in Guards :
             (Dead(i) /\ hist[i].lastOp \in Unallocating) => hist[i].dcalls = <<>>)

\* Both constructors built a guard, the guards were destroyed with no other
\* operation on them, and no deleter was invoked.
C23_Witness ==
    \E i, k \in Guards :
        /\ Dead(i) /\ Untouched(i, "construct_empty")
        /\ Dead(k) /\ Untouched(k, "construct_default_resource")
        /\ hist[i].dcalls = <<>> /\ hist[k].dcalls = <<>> /\ calls = <<>>

\* C24 as stated: with resource traits a guard is unallocated exactly if its
\* stored resource equals Traits::make_default().
C24_UnallocatedIsDefault ==
    traits => \A i \in Guards :
                 Live(i) => (~allocated(i) <=> guard[i].data.res = Traits_make_default)

\* The operations that store the default resource value whatever the guard
\* held before.
Deactivating == {"construct_empty", "construct_default_resource", "release", "moved_from"}

\* C24 amended: with resource traits a guard is unallocated exactly if its
\* stored resource is one of the unallocated values of the traits, never a
\* value it took as allocated: Traits::make_default() after default
\* construction, release() and being moved from, and otherwise possibly
\* another unallocated value the guard was given.
C24_UnallocatedIsUnallocatedValue ==
    traits => \A i \in Guards :
                 Live(i) =>
                   /\ ~allocated(i) <=> guard[i].data.res \in Values \ Allocatable
                   /\ ~allocated(i) => guard[i].data.res \notin handed
                   /\ guard[i].data.res = Traits_make_default => ~allocated(i)
                   /\ hist[i].lastOp \in Deactivating
                        => guard[i].data.res = Traits_make_default

\* With traits, one guard was constructed from an unallocated value that is not
\* the default and stores it; another was reset and stores the default.
C24_Witness ==
    \E i, k \in Guards :
        /\ traits /\ Live(i) /\ Live(k)
        /\ Untouched(i, "construct") /\ ~allocated(i)
        /\ guard[i].data.res = OtherUnallocated
        /\ hist[k].lastOp = "reset" /\ ~allocated(k)
        /\ guard[k].data.res = Traits_make_default /\ Len(calls) = 1

\* C25: with resource traits no operation of a guard, the failure paths of the
\* constructors and of reset(v) included, ever invokes a deleter on a resource
\* value for which Traits::is_allocated is false.
C25_NeverOnUnallocated ==
    traits => \A k \in DOMAIN calls : Traits_is_allocated(calls[k][2])

\* C26: when the deleter invoked by reset() throws, reset() ends with the
\* exception and the guard is not marked unallocated: it is allocated and holds
\* the resource and the deleter it held; a destructor whose deleter throws ends
\* with the exception as well, after that one invocation.
C26_ThrowingResetKeepsState ==
    /\ [][\A i \in Guards :
             (StepIs(i, "reset_threw") /\ ResetThrows(i))
               => /\ calls' = calls \o <<Call(guard[i].data)>>
                  /\ guard'[i] = guard[i]
                  /\ allocated(i)']_vars
    /\ [][\A i \in Guards :
             (StepIs(i, "destroy_threw") /\ DestroyThrows(i))
               => calls' = calls \o <<Call(guard[i].data)>>]_vars

\* reset() threw on a guard built from a resource: the deleter was invoked and
\* the guard is the allocated guard it was.
C26_Witness ==
    \E i \in Guards :
        /\ Live(i) /\ hist[i].lastOp = "reset_threw"
        /\ allocated(i) /\ guard[i].data.res \in handed
        /\ calls = <<Call(guard[i].data)>>

\* C27: when reset(newVal), newVal denoting an allocated resource, throws from
\* the assignment of newVal, the previous resource has been passed to the
\* deleter, once, if the guard was allocated, then the stored deleter has been
\* invoked on newVal, once, and the guard is left unallocated; its destruction
\* afterwards invokes no deleter.
C27_ResetWithAssignmentFails ==
    /\ [][\A i \in Guards :
             StepIs(i, "reset_with_threw_resource") =>
               \A res \in Values :
                 (DenotesAllocated(res) /\ ResetWithThrows(i, res, "resource"))
                   => /\ calls' = calls
                                     \o (IF allocated(i) THEN <<Call(guard[i].data)>>
                                                          ELSE <<>>)
                                     \o << <<guard[i].data.del, res>> >>
                      /\ Cardinality({k \in DOMAIN calls' : calls'[k][2] = res}) = 1
                      /\ ~allocated(i)']_vars
    /\ [](\A i \in Guards :
             (Dead(i) /\ hist[i].lastOp = "reset_with_threw_resource")
               => hist[i].dcalls = <<>>)

\* An allocated guard was reset with a new value whose assignment threw, and
\* destroyed: its deleter was invoked on the previous resource, then on the
\* new value, and not by the destructor.
C27_Witness ==
    \E i \in Guards :
        /\ Dead(i) /\ hist[i].lastOp = "reset_with_threw_resource"
        /\ hist[i].dcalls = <<>>
        /\ Len(calls) = 2
        /\ calls[1][1] = DeleterFor(i) /\ calls[2][1] = DeleterFor(i)
        /\ calls[1][2] # calls[2][2] /\ {calls[1][2], calls[2][2]} \subseteq handed

\* The place in the log of the invocation made by the destructor of guard i.
DestructorCallAt(i) == CHOOSE p \in DOMAIN calls : calls[p] = hist[i].dcalls[1]

\* C28: the deleter invocation of an allocated guard is made inside its destroy
\* step, after every earlier invocation, and is complete when the guard is
\* gone; of two guards of nested scopes, destroyed in reverse order of
\* construction, the one constructed later has its invocation first.
C28_CleanupInDestroyStep ==
    /\ [][\A i \in Guards :
             (Live(i) /\ ScopeExit(i))
               => /\ Dead(i)'
                  /\ calls' = calls \o (IF allocated(i) THEN <<Call(guard[i].data)>>
                                                          ELSE <<>>)
                  /\ hist'[i].dcalls = (IF allocated(i) THEN <<Call(guard[i].data)>>
                                                         ELSE <<>>)]_vars
    /\ [](\A i, j \in Guards :
             (i < j /\ Dead(i) /\ Dead(j) /\ hist[i].dcalls # <<>> /\ hist[j].dcalls # <<>>)
               => DestructorCallAt(j) < DestructorCallAt(i))

\* Two allocated guards of nested scopes were destroyed: the log has the
\* cleanup of the inner guard, then the cleanup of the outer one.
C28_Witness ==
    \E i, j \in Guards :
        /\ i < j /\ Dead(i) /\ Dead(j)
        /\ Untouched(i, "construct") /\ Untouched(j, "construct")
        /\ calls = hist[j].dcalls \o hist[i].dcalls
        /\ Len(hist[i].dcalls) = 1 /\ Len(hist[j].dcalls) = 1

\* C29: in a move assignment this = move(that) with `this` allocated, this and
\* that being two guards, the one deleter invocation is the target's previous
\* deleter on the target's previous resource, and it is made before the
\* resource or the deleter of `this` is assigned: also when the assignment
\* that follows throws.
C29_TargetCleanedByOwnDeleter ==
    [][\A this, that \in Guards :
          (/\ this # that /\ allocated(this)
           /\ \/ StepIs(this, "move_assign") /\ MoveAssign(this, that)
              \/ StepIs(this, "move_assign_threw")
                   /\ \E where \in Throws : MoveAssignThrows(this, that, where))
            => calls' = calls \o << <<guard[this].data.del, guard[this].data.res>> >>]_vars

\* After this = move(that): `this` holds that's resource and deleter, and the
\* one invocation was its own deleter on its previous resource.
C29_Witness ==
    \E this, that \in Guards :
        /\ this # that /\ Live(this) /\ Live(that)
        /\ hist[this].lastOp = "move_assign" /\ hist[that].lastOp = "moved_from"
        /\ allocated(this) /\ guard[this].data.del = DeleterFor(that)
        /\ Len(calls) = 1
        /\ calls[1][1] = DeleterFor(this) /\ calls[1][2] # guard[this].data.res

C32_SelfMoveAssign ==
    /\ [][\A g \in Guards :
             (StepIs(g, "move_assign") /\ MoveAssign(g, g))
               => /\ calls' = calls \o (IF allocated(g) THEN <<Call(guard[g].data)>>
                                                          ELSE <<>>)
                  /\ ~allocated(g)']_vars
    /\ [][\A g \in Guards :
             (hist[g].lastOp = "move_assign" /\ ~allocated(g) /\ Destroy(g))
               => calls' = calls]_vars

\* The only guard of the run was constructed allocated, assigned to itself and
\* destroyed: one invocation, its deleter on its resource, not the destructor's.
C32_Witness ==
    \E g \in Guards :
        /\ \A k \in Guards \ {g} : guard[k].st = "unborn"
        /\ Dead(g) /\ hist[g].lastOp = "move_assign"
        /\ hist[g].dcalls = <<>>
        /\ Len(calls) = 1 /\ calls[1][1] = DeleterFor(g) /\ calls[1][2] \in handed

\* What a caller observes of guard i: whether it exists, allocated(), its
\* deleter, and the resource it owns if it is allocated.
Obs(i) == [st |-> guard[i].st,
           alloc |-> allocated(i),
           del |-> guard[i].data.del,
           res |-> IF allocated(i) THEN guard[i].data.res ELSE Traits_make_default]

ObsStore == [i \in Guards |-> Obs(i)]

\* The observation of a guard that owns res with del, of a guard that has
\* given up what it owned, and the invocation that cleans up what it owns.
Owning(res, del) == [st |-> "live", alloc |-> TRUE, del |-> del, res |-> res]

Disowned(o) == [o EXCEPT !.alloc = FALSE, !.res = Traits_make_default]

CleanupOf(o) == IF o.alloc THEN << <<o.del, o.res>> >> ELSE <<>>

\* The observations after this = move(that): `this` cleans up and takes what
\* `that` observably is, and `that` gives it up.
ObsAssigned(O, this, that) ==
    LET O1 == [O EXCEPT ![this] = Disowned(O[this])]
        O2 == [O1 EXCEPT ![this] = O1[that]]
    IN  [O2 EXCEPT ![that] = Disowned(O2[that])]

\* The step leaves every guard outside I, and what is recorded of it, alone.
OnlyOn(I) == \A k \in Guards \ I : guard'[k] = guard[k] /\ hist'[k] = hist[k]

\* C33: the flag-tracked and the traits-tracked storage are observationally
\* equivalent: when every resource value given to a constructor or to reset(v)
\* denotes an allocated resource, each operation changes the observations of
\* the guards (allocated(), deleter, owned resource) and extends the sequence
\* of deleter invocations as one function of the observations before it, the
\* same function for both storages.
C33_StoragesObservablyEqual ==
    [][\A i \in Guards :
          /\ (StepIs(i, "construct_default_resource") /\ OnlyOn({i})
                 /\ ConstructDefaultResource(i, DeleterFor(i)))
                => /\ calls' = calls
                   /\ ObsStore' = [ObsStore EXCEPT
                                     ![i] = Disowned(Owning(Traits_make_default,
                                                            DeleterFor(i)))]
          /\ (StepIs(i, "construct") /\ OnlyOn({i})) =>
                \A res \in AllocatedValues :
                  Construct(i, res, DeleterFor(i))
                    => /\ calls' = calls
                       /\ ObsStore' = [ObsStore EXCEPT ![i] = Owning(res, DeleterFor(i))]
          /\ StepIs(i, "move_construct") =>
                \A that \in Guards :
                  (OnlyOn({i, that}) /\ MoveConstruct(i, that))
                    => /\ calls' = calls
                       /\ ObsStore' = [ObsStore EXCEPT ![i] = ObsStore[that],
                                                       ![that] = Disowned(ObsStore[that])]
          /\ StepIs(i, "move_assign") =>
                \A that \in Guards :
                  (OnlyOn({i, that}) /\ MoveAssign(i, that))
                    => /\ calls' = calls \o CleanupOf(ObsStore[i])
                       /\ ObsStore' = ObsAssigned(ObsStore, i, that)
          /\ StepIs(i, "swap") =>
                \A that \in Guards :
                  (OnlyOn({i, that}) /\ Swap(i, that))
                    => /\ calls' = calls
                       /\ ObsStore' = [ObsStore EXCEPT ![i] = ObsStore[that],
                                                       ![that] = ObsStore[i]]
          /\ ((StepIs(i, "reset") \/ StepIs(i, "reset_again")) /\ OnlyOn({i}) /\ Reset(i))
                => /\ calls' = calls \o CleanupOf(ObsStore[i])
                   /\ ObsStore' = [ObsStore EXCEPT ![i] = Disowned(ObsStore[i])]
          /\ (StepIs(i, "reset_with") /\ OnlyOn({i})) =>
                \A res \in AllocatedValues :
                  ResetWith(i, res)
                    => /\ calls' = calls \o CleanupOf(ObsStore[i])
                       /\ ObsStore' = [ObsStore EXCEPT
                                         ![i] = Owning(res, ObsStore[i].del)]
          /\ (StepIs(i, "release") /\ OnlyOn({i}) /\ Release(i))
                => /\ calls' = calls
                   /\ ObsStore' = [ObsStore EXCEPT ![i] = Disowned(ObsStore[i])]
          /\ (Live(i) /\ Dead(i)' /\ Destroy(i))
                => /\ calls' = calls \o CleanupOf(ObsStore[i])
                   /\ ObsStore' = [ObsStore EXCEPT
                                     ![i] = [st |-> "dead", alloc |-> FALSE,
                                             del |-> DefaultDeleter,
                                             res |-> Traits_make_default]]]_vars

\* With traits: a guard gave what it owned to another by move assignment; it
\* stores the default value where the flag-tracked storage keeps the old one,
\* and the observations are the same.
C33_Witness ==
    \E this, that \in Guards :
        /\ traits /\ this # that /\ Live(this) /\ Live(that)
        /\ hist[this].lastOp = "move_assign" /\ hist[that].lastOp = "moved_from"
        /\ Obs(this) = Owning(guard[this].data.res, DeleterFor(that))
        /\ Obs(that) = Disowned(Owning(Traits_make_default, DeleterFor(that)))
        /\ Len(calls) = 1 /\ calls[1][1] = DeleterFor(this)

\* C34: with the flag-tracked storage release() changes the flag m_allocated
\* and nothing else: the stored resource, which get() returns, and the stored
\* deleter are what they were, and so is every other guard.
C34_ReleaseKeepsResource ==
    [][\A i \in Guards :
          (~traits /\ StepIs(i, "release") /\ Release(i))
            => /\ guard'[i].data = [guard[i].data EXCEPT !.m_allocated = FALSE]
               /\ guard'[i].st = guard[i].st
               /\ \A k \in Guards \ {i} : guard'[k] = guard[k]]_vars

\* Without traits: a released guard still stores the resource it gave back,
\* a value other than the default.
C34_Witness ==
    \E i \in Guards :
        /\ ~traits /\ Live(i) /\ hist[i].lastOp = "release" /\ ~allocated(i)
        /\ guard[i].data.res \in released
        /\ guard[i].data.res # Traits_make_default
        /\ guard[i].data.del = DeleterFor(i)

\* C35: with the traits-tracked storage a guard after release(), the source of
\* a move construction or of a move assignment, and a guard after a reset()
\* that found it allocated store Traits::make_default() and are unallocated.
C35_DeactivatedStoresDefault ==
    /\ [](\A i \in Guards :
             (traits /\ Live(i) /\ hist[i].lastOp \in {"release", "moved_from"})
               => (guard[i].data.res = Traits_make_default /\ ~allocated(i)))
    /\ [][\A i \in Guards :
             (traits /\ StepIs(i, "reset") /\ allocated(i) /\ Reset(i))
               => (guard'[i].data.res = Traits_make_default /\ ~allocated(i)')]_vars

\* With traits: the source of a move assignment and a guard that was reset
\* both store the default value; the reset invoked the deleter.
C35_Witness ==
    \E i, k \in Guards :
        /\ traits /\ Live(i) /\ Live(k)
        /\ hist[i].lastOp = "moved_from" /\ hist[k].lastOp = "reset"
        /\ guard[i].data.res = Traits_make_default
        /\ guard[k].data.res = Traits_make_default
        /\ Len(calls) = 1 /\ calls[1][2] \in handed


\* C36: inside swap() the part that cannot throw is swapped first: the
\* resource first and the deleter second when the resource swap cannot throw,
\* the deleter first and the resource second when only the deleter swap cannot
\* throw.  The allocation flags are exchanged last, in the step that follows
\* the two swaps, and in no step before it, nor when the second swap throws.
C36_SwapStepOrder ==
    /\ [](pc.step = "first" =>
            Store = IF nothrow.resource
                        THEN swap_resources(pc.before, pc.this, pc.that)
                        ELSE swap_deleters(pc.before, pc.this, pc.that))
    /\ [](pc.step = "second" =>
            Store = swap_deleters(swap_resources(pc.before, pc.this, pc.that),
                                  pc.this, pc.that))
    /\ [][(pc # Idle \/ pc' # Idle) =>
            IF pc.step = "second"
                THEN \A i \in Guards :
                        guard'[i].data.m_allocated =
                            IF i = pc.this THEN pc.before[pc.that].m_allocated
                            ELSE IF i = pc.that THEN pc.before[pc.this].m_allocated
                            ELSE guard[i].data.m_allocated
                ELSE \A i \in Guards :
                        guard'[i].data.m_allocated = guard[i].data.m_allocated]_vars

\* The resource swap may throw, so the deleters were swapped first and the
\* resources second; both swaps of two different guards with different
\* resources are done and the flags, which differ, are still to be exchanged.
C36_Witness ==
    /\ pc.step = "second"
    /\ ~traits /\ ~nothrow.resource
    /\ pc.this # pc.that
    /\ pc.before[pc.this].res # pc.before[pc.that].res
    /\ pc.before[pc.this].del # pc.before[pc.that].del
    /\ pc.before[pc.this].m_allocated # pc.before[pc.that].m_allocated
    /\ guard[pc.this].data.m_allocated = pc.before[pc.this].m_allocated
    /\ guard[pc.this].data.res = pc.before[pc.that].res


\* C37: reset(r2) on a guard of a reference-typed resource that is bound to
\* r1 makes the guard refer to r2: get() is then the object r2, with the value
\* r2 has, and the assignment changes the value of no object, r1 included.
C37_ResetRebindsReference ==
    [][\A i \in Guards : StepIs(i, "reset_ref") =>
          \A r2 \in Addresses :
              ResetRef(i, r2) =>
                  /\ guard'[i].data.res = r2
                  /\ ref_wrapper_get(guard'[i].data.res, referent') = referent[r2]
                  /\ referent'[guard[i].data.res] = referent[guard[i].data.res]
                  /\ referent' = referent]_vars

\* The guard was bound to r1, on which the deleter was then invoked, and is
\* bound to another object r2 whose value differs from that of r1.
C37_Witness ==
    \E i \in Guards :
        /\ Live(i) /\ hist[i].lastOp = "reset_ref"
        /\ Len(calls) = 1
        /\ calls[1][2] # guard[i].data.res
        /\ referent[calls[1][2]] # referent[guard[i].data.res]
        /\ ref_wrapper_get(guard[i].data.res, referent) = 1


\* C38: the move assignment of the flag-tracked storage invokes no deleter
\* (the invocations of a move assignment of the guard are those of its
\* reset()) and changes the flags after its two assignments: when it returns,
\* the target's flag is the flag the source had and the source's flag is
\* clear; when one of the assignments throws, the source's flag is as it was
\* and the target's flag is as reset() left it.
C38_StorageAssignFlagsLast ==
    /\ [][\A this \in Guards : (~traits /\ StepIs(this, "move_assign")) =>
            \A that \in Guards :
                MoveAssign(this, that) =>
                    /\ calls' = calls \o reset(guard[this].data).called
                    /\ guard'[that].data.m_allocated = FALSE
                    /\ this # that =>
                          guard'[this].data.m_allocated = guard[that].data.m_allocated]_vars
    /\ [][\A this \in Guards : (~traits /\ StepIs(this, "move_assign_threw")) =>
            \A that \in Guards, where \in Throws :
                MoveAssignThrows(this, that, where) =>
                    /\ calls' = calls \o reset(guard[this].data).called
                    /\ guard'[this].data.m_allocated =
                          reset(guard[this].data).data.m_allocated
                    /\ this # that =>
                          guard'[that].data.m_allocated = guard[that].data.m_allocated]_vars

\* A move assignment from an allocated guard threw in the second assignment
\* of the storage, that of the resource: the target has the source's deleter,
\* the source is allocated still and the target is not.
C38_Witness ==
    \E this, that \in Guards :
        /\ this # that /\ ~traits
        /\ Live(this) /\ Live(that)
        /\ hist[this].lastOp = "move_assign_threw"
        /\ hist[that].lastOp = "move_assign_threw_source"
        /\ hist[that].ctor.from = this
        /\ hist[that].ctor.alloc
        /\ guard[this].data.del = guard[that].data.del
        /\ guard[that].data.m_allocated
        /\ ~guard[this].data.m_allocated

====
